---- MODULE Spec2Model ----
(***************************************************************************)
(* ALPHAdominico subscription backend (src/main.py): the three SQLite      *)
(* tables, the Razorpay gateway and the four mutating endpoints, each      *)
(* split at the points where the code leaves one database transaction and  *)
(* another process serving the same database file can run.                 *)
(***************************************************************************)
EXTENDS Integers, Sequences, FiniteSets, TLC

\* ------------------------------------------------------------------ bounds
\* Requests accepted in one behaviour, and server processes sharing the file.
MaxRequests == 2
NumWorkers == 2

Workers == 1..NumWorkers

\* ------------------------------------------------------------- configuration
RAZORPAY_KEY_SECRET == "key_secret"
RAZORPAY_WEBHOOK_SECRET == "webhook_secret"
RAZORPAY_KEY_ID == "rzp_key"
\* A plan table that also takes the plan a client names.
RAZORPAY_PLAN_IDS_with_client_plan ==
    [standard |-> "plan_std", pro |-> "", gold |-> "plan_client"]

\* os.getenv(..., ""): the pro plan is left unconfigured in this deployment.
RAZORPAY_PLAN_IDS == [standard |-> "plan_std", pro |-> ""]

\* Python None in a TEXT column or str argument, and in a timestamp / amount.
NULL == "NULL"
NoTime == 0
NoAmount == -1

\* ------------------------------------------------------------------- state
VARIABLES
    subscribers,   \* table subscribers: email -> row (email is UNIQUE)
    payment_log,   \* table payment_log: rows in insertion (id) order
    webhook_log,   \* table webhook_log: rows in insertion (id) order
    clock,         \* the wall clock: the value the last utcnow() returned;
                   \* every utcnow() call reads a later instant than the one before
    gateway,       \* the Razorpay side: subscriptions created, cancels accepted
    reqs,          \* per server process: the request it is serving
    answered,      \* the requests answered so far, in the order of their answers
    nreq           \* requests accepted so far

vars == <<subscribers, payment_log, webhook_log, clock, gateway, reqs, answered, nreq>>

\* ------------------------------------------------------------------ helpers
\* str.lower() on the plan keys clients send.
Lower(s) ==
    CASE s = "Standard" -> "standard"
      [] s = "PRO" -> "pro"
      [] OTHER -> s

\* hmac.new(secret, message, sha256).hexdigest(): injective in (secret, message).
Hmac(secret, message) == <<secret, message>>

\* A digest of "payment_id|subscription_id" that is not keyed with the secret.
verify_razorpay_signature_unkeyed(payment_id, subscription_id, signature) ==
    signature[2] = <<payment_id, "|", subscription_id>>

\* f"{payment_id}|{subscription_id}" hashed with the key secret.
verify_razorpay_signature(payment_id, subscription_id, signature) ==
    Hmac(RAZORPAY_KEY_SECRET, <<payment_id, "|", subscription_id>>) = signature

\* The webhook body checked against the payment key secret instead.
verify_webhook_signature_wrong_secret(body, signature) ==
    \/ Hmac(RAZORPAY_WEBHOOK_SECRET, body) = signature
    \/ Hmac(RAZORPAY_KEY_SECRET, body) = signature

\* The raw body hashed with the webhook secret.
verify_webhook_signature(body, signature) ==
    Hmac(RAZORPAY_WEBHOOK_SECRET, body) = signature

\* Python truthiness of an Optional[str].
Truthy(s) == s # NULL /\ s # ""

\* "if val is not None": the column takes val, else keeps old.
Supplied(val, none, old) == IF val # none THEN val ELSE old

\* upsert_subscriber's keyword defaults.
UpsertDefaults ==
    [name |-> NULL, phone |-> NULL, plan_key |-> "standard", status |-> "trial",
     razorpay_customer_id |-> NULL, razorpay_sub_id |-> NULL,
     trial_start_at |-> NoTime, activated_at |-> NoTime, cancelled_at |-> NoTime,
     cancel_at_period_end |-> 0]

\* The UPDATE branch: every argument that is not None is written, updated_at too.
upsert_update(row, a, now) ==
    [row EXCEPT
        !.name = Supplied(a.name, NULL, @),
        !.phone = Supplied(a.phone, NULL, @),
        !.plan_key = Supplied(a.plan_key, NULL, @),
        !.status = Supplied(a.status, NULL, @),
        !.razorpay_customer_id = Supplied(a.razorpay_customer_id, NULL, @),
        !.razorpay_sub_id = Supplied(a.razorpay_sub_id, NULL, @),
        !.trial_start_at = Supplied(a.trial_start_at, NoTime, @),
        !.activated_at = Supplied(a.activated_at, NoTime, @),
        !.cancelled_at = Supplied(a.cancelled_at, NoTime, @),
        !.cancel_at_period_end = a.cancel_at_period_end,
        !.updated_at = now]

\* The INSERT branch: all arguments as given, created_at = updated_at = now.
upsert_insert(a, now) ==
    [name |-> a.name, phone |-> a.phone, plan_key |-> a.plan_key,
     status |-> a.status, razorpay_customer_id |-> a.razorpay_customer_id,
     razorpay_sub_id |-> a.razorpay_sub_id, created_at |-> now,
     trial_start_at |-> a.trial_start_at, activated_at |-> a.activated_at,
     cancelled_at |-> a.cancelled_at,
     cancel_at_period_end |-> a.cancel_at_period_end, updated_at |-> now]

\* The INSERT hits the UNIQUE(email) constraint when a row appeared after the
\* SELECT that found none (sqlite3.IntegrityError).
upsert_raises(subs, email, existing) == ~existing /\ email \in DOMAIN subs

\* The table after upsert_subscriber's write; `existing` and `now` were read
\* before the write statement opened the transaction.
upsert_subscriber(subs, email, a, now, existing) ==
    IF existing
    THEN IF email \in DOMAIN subs
         THEN [subs EXCEPT ![email] = upsert_update(@, a, now)]
         ELSE subs
    ELSE (email :> upsert_insert(a, now)) @@ subs

\* A plain INSERT on a table without the UNIQUE constraint.
log_payment_plain_insert(plog, row) == Append(plog, row)

\* INSERT OR REPLACE: the row of the same payment id is overwritten.
log_payment_or_replace(plog, row) ==
    IF \E i \in 1..Len(plog) : plog[i].razorpay_payment_id = row.razorpay_payment_id
    THEN [i \in 1..Len(plog) |->
            IF plog[i].razorpay_payment_id = row.razorpay_payment_id THEN row ELSE plog[i]]
    ELSE Append(plog, row)

\* INSERT OR IGNORE INTO payment_log: razorpay_payment_id is UNIQUE.
log_payment(plog, row) ==
    IF \E i \in 1..Len(plog) : plog[i].razorpay_payment_id = row.razorpay_payment_id
    THEN plog
    ELSE Append(plog, row)

PaymentRow(email, phone, plan_key, payment_id, sub_id, amount, event_type, status, at) ==
    [email |-> email, phone |-> phone, plan_key |-> plan_key,
     razorpay_payment_id |-> payment_id, razorpay_sub_id |-> sub_id,
     amount_paise |-> amount, event_type |-> event_type, status |-> status,
     logged_at |-> at]

\* The id the gateway gives its n-th subscription.
SubId(n) == "sub_" \o ToString(n)

\* _extract_entity_id: the first non-empty id of subscription, payment (order
\* ids are not carried by the modelled bodies); "" when the walk raises.
extract_entity_id(body) ==
    IF body.kind # "object" THEN ""
    ELSE IF body.sub_entity_id # "" THEN body.sub_entity_id
    ELSE IF body.payment_id # "" THEN body.payment_id
    ELSE ""

\* ------------------------------------------------------------------ inputs
Emails == {"a@x.com", "b@x.com"}

\* CreateSubscriptionRequest: plan_id is what the client claims, and is ignored.
CreateReq(email, plan_key) ==
    [email |-> email, name |-> "Ann", phone |-> "+1", plan_key |-> plan_key,
     plan_id |-> "plan_client"]

\* The last two name the configured upstream plan in plan_id while asking for a
\* plan key the server has no upstream id for.
CreateInputs ==
    {CreateReq("a@x.com", k) : k \in {"Standard", "PRO", "gold"}}
        \cup {CreateReq("b@x.com", "standard")}
        \cup {[CreateReq("a@x.com", k) EXCEPT !.plan_id = "plan_std"] : k \in {"PRO", "gold"}}

\* rz_client.subscription.create / cancel: answers, BadRequestError, any other error.
GatewayOutcomes == {"ok", "bad_request", "error"}

\* PaymentSuccessRequest.
PaymentReq(email, plan_key, payment_id, sub_id, signature) ==
    [email |-> email, name |-> "Ann", phone |-> "+1", plan_key |-> plan_key,
     razorpay_payment_id |-> payment_id, razorpay_subscription_id |-> sub_id,
     razorpay_signature |-> signature]

PaymentSig(payment_id, sub_id) ==
    Hmac(RAZORPAY_KEY_SECRET, <<payment_id, "|", sub_id>>)

PaymentInputs ==
    {PaymentReq(e, "pro", "pay_1", "sub_1", PaymentSig("pay_1", "sub_1")) : e \in Emails}
        \cup {PaymentReq("a@x.com", "gold", "pay_2", "sub_2", PaymentSig("pay_2", "sub_2")),
              \* a signature made with another secret, and one made for another payment
              PaymentReq("a@x.com", "pro", "pay_1", "sub_1",
                         Hmac("guess", <<"pay_1", "|", "sub_1">>)),
              PaymentReq("b@x.com", "pro", "pay_2", "sub_1", PaymentSig("pay_1", "sub_1"))}

\* A webhook request body.  kind: "object" (a JSON object of the shape Razorpay
\* sends), "badshape" (a JSON object whose "payload" is not an object), "array"
\* (JSON, but not an object), "garbage" (not JSON).  email is notes.email of
\* the subscription entity, or the payment entity's email for payment.failed;
\* "" and NULL stand for an absent key.
Body(kind, event, email, plan_key, sub_entity_id, payment_id, pay_sub_id, amount) ==
    [kind |-> kind, event |-> event, email |-> email, plan_key |-> plan_key,
     sub_entity_id |-> sub_entity_id, payment_id |-> payment_id,
     pay_sub_id |-> pay_sub_id, amount |-> amount, contact |-> "+91"]

SubEvent(event, email, plan_key) ==
    Body("object", event, email, plan_key, "sub_1", "", "", 0)

Bodies ==
    {SubEvent("subscription.activated", "a@x.com", NULL),
     SubEvent("subscription.activated", "a@x.com", "pro"),
     SubEvent("subscription.activated", "", NULL),
     Body("object", "subscription.charged", "a@x.com", NULL, "sub_1", "pay_1", "", 19900),
     Body("object", "subscription.charged", "a@x.com", NULL, "sub_1", "", "", 19900),
     Body("object", "subscription.charged", "", NULL, "sub_1", "pay_1", "", 19900),
     SubEvent("subscription.cancelled", "a@x.com", NULL),
     SubEvent("subscription.cancelled", "", NULL),
     SubEvent("subscription.completed", "a@x.com", NULL),
     Body("object", "payment.failed", "a@x.com", NULL, "", "pay_1", "sub_1", 19900),
     Body("object", "payment.failed", "a@x.com", NULL, "", "", "sub_1", 19900),
     Body("object", "payment.failed", "", NULL, "", "pay_1", "sub_1", 19900),
     Body("object", "order.paid", "a@x.com", NULL, "", "pay_1", "", 19900),
     Body("badshape", "subscription.activated", "", NULL, "", "", "", 0),
     Body("array", "", "", NULL, "", "", "", 0),
     Body("garbage", "", "", NULL, "", "", "", 0)}

\* Bodies delivered with a signature that does not verify.
ForgedBodies ==
    {b \in Bodies :
        \/ b.kind = "garbage"
        \/ /\ b.email = "a@x.com"
           /\ b.plan_key = NULL
           /\ b.payment_id # ""
        \/ /\ b.email = "a@x.com"
           /\ b.event \in {"subscription.activated", "subscription.cancelled"}
           /\ b.plan_key = NULL}

WebhookInputs ==
    {[body |-> b, signature |-> Hmac(RAZORPAY_WEBHOOK_SECRET, b)] : b \in Bodies}
        \cup {[body |-> b, signature |-> Hmac(RAZORPAY_KEY_SECRET, b)] : b \in ForgedBodies}

CancelInputs == {[email |-> e] : e \in Emails}

\* ----------------------------------------------------------------- requests
\* A request being served: its input, what it has read so far, its answer, and
\* (left_status) the status its write left in the subscriber's row.
NewReq(op, inp) ==
    [op |-> op, pc |-> "start", inp |-> inp, sig_ok |-> FALSE, existing |-> FALSE,
     now |-> NoTime, arg_time |-> NoTime, row_sub_id |-> NULL, row_status |-> NULL,
     gw_calls |-> 0, sub_id |-> NULL, code |-> 0, status |-> "", left_status |-> NULL]

Idle == [NewReq("idle", [email |-> ""]) EXCEPT !.pc = "idle"]

\* The HTTP answer: status code and the body's status / detail.
Done(r, code, status) == [r EXCEPT !.pc = "done", !.code = code, !.status = status]

Free(w) == reqs[w].pc = "idle"

\* The process goes on with the request, or sends its answer and is free again.
Move(w, r) ==
    IF r.pc = "done"
    THEN /\ reqs' = [reqs EXCEPT ![w] = Idle]
         /\ answered' = Append(answered, r)
    ELSE /\ reqs' = [reqs EXCEPT ![w] = r]
         /\ UNCHANGED answered

\* A new request goes to the first process that is not serving one.
CanAccept(w) ==
    /\ nreq < MaxRequests
    /\ Free(w)
    /\ \A v \in Workers : v < w => ~Free(v)

\* create_subscription leaving status and razorpay_sub_id to the defaults.
create_args_without_handle(r) ==
    [UpsertDefaults EXCEPT
        !.name = r.inp.name, !.phone = r.inp.phone,
        !.plan_key = Lower(r.inp.plan_key), !.status = NULL,
        !.trial_start_at = r.arg_time]

\* The arguments create_subscription passes to upsert_subscriber.
create_args(r) ==
    [UpsertDefaults EXCEPT
        !.name = r.inp.name, !.phone = r.inp.phone,
        !.plan_key = Lower(r.inp.plan_key), !.status = "trial",
        !.razorpay_sub_id = r.sub_id, !.trial_start_at = r.arg_time]

\* The arguments payment_success passes to upsert_subscriber.
payment_args(r) ==
    [UpsertDefaults EXCEPT
        !.name = r.inp.name, !.phone = r.inp.phone, !.plan_key = r.inp.plan_key,
        !.status = "active", !.razorpay_sub_id = r.inp.razorpay_subscription_id,
        !.activated_at = r.arg_time]

\* init_db creates the tables only if they are missing (CREATE TABLE IF NOT
\* EXISTS): the server starts on a new file, or on the file an earlier run
\* left.  Fresh is the new file; Registered is the file after one
\* create_subscription for a@x.com; Paid is Registered after the
\* payment_success for that subscription.  Registered and Paid are the states
\* CreateSubscription, CreateCommit, PaymentSuccess and PaymentCommit below
\* reach from Fresh.
Fresh ==
    [subscribers |-> <<>>, payment_log |-> <<>>, webhook_log |-> <<>>, clock |-> 0,
     gateway |-> [created |-> 0, cancels |-> {}]]

Registered ==
    LET r == [NewReq("create", CreateReq("a@x.com", "Standard")) EXCEPT
                  !.sub_id = SubId(1), !.arg_time = 1, !.now = 2]
    IN  [Fresh EXCEPT
            !.subscribers = upsert_subscriber(<<>>, "a@x.com", create_args(r), r.now, FALSE),
            !.clock = 2,
            !.gateway = [created |-> 1, cancels |-> {}]]

Paid ==
    LET r == [NewReq("payment", PaymentReq("a@x.com", "pro", "pay_1", "sub_1",
                                           PaymentSig("pay_1", "sub_1"))) EXCEPT
                  !.arg_time = 3, !.now = 4]
    IN  [Registered EXCEPT
            !.subscribers = upsert_subscriber(@, "a@x.com", payment_args(r), r.now, TRUE),
            !.payment_log = log_payment(@,
                    PaymentRow("a@x.com", "+1", "pro", "pay_1", "sub_1", NoAmount,
                               "manual_success", "captured", 5)),
            !.clock = 5]

Databases == {Fresh, Registered, Paid}

Init ==
    /\ \E db \in Databases :
        /\ subscribers = db.subscribers
        /\ payment_log = db.payment_log
        /\ webhook_log = db.webhook_log
        /\ clock = db.clock
        /\ gateway = db.gateway
    /\ reqs = [w \in Workers |-> Idle]
    /\ answered = <<>>
    /\ nreq = 0

\* ------------------------------------------------------ create_subscription
\* Plan validation, the gateway call, then upsert_subscriber up to its SELECT.
CreateSubscription(w) ==
    /\ CanAccept(w)
    /\ nreq' = nreq + 1
    /\ UNCHANGED <<subscribers, payment_log, webhook_log>>
    /\ \E inp \in CreateInputs, gw \in GatewayOutcomes :
        LET r == NewReq("create", inp)
            plan_key == Lower(inp.plan_key)
            called == [r EXCEPT !.gw_calls = 1]
        IN  IF plan_key \notin DOMAIN RAZORPAY_PLAN_IDS
            THEN /\ Move(w, Done(r, 400, "Invalid plan"))
                 /\ UNCHANGED <<clock, gateway>>
            ELSE IF RAZORPAY_PLAN_IDS[plan_key] = ""
            THEN /\ Move(w, Done(r, 503, "Plan not configured"))
                 /\ UNCHANGED <<clock, gateway>>
            ELSE IF gw = "bad_request"
            THEN /\ Move(w, Done(called, 400, "BadRequestError"))
                 /\ UNCHANGED <<clock, gateway>>
            ELSE IF gw = "error"
            THEN /\ Move(w, Done(called, 500, "Internal error"))
                 /\ UNCHANGED <<clock, gateway>>
            ELSE /\ gateway' = [gateway EXCEPT !.created = @ + 1]
                 /\ clock' = clock + 2
                 /\ Move(w, [called EXCEPT !.pc = "commit",
                                       !.sub_id = SubId(gateway.created + 1),
                                       !.arg_time = clock + 1,
                                       !.now = clock + 2,
                                       !.existing = inp.email \in DOMAIN subscribers])

\* The write and the commit; any exception is answered 500 after the rollback.
CreateCommit(w) ==
    LET r == reqs[w] IN
    /\ r.op = "create"
    /\ r.pc = "commit"
    /\ UNCHANGED <<payment_log, webhook_log, clock, gateway, nreq>>
    /\ IF upsert_raises(subscribers, r.inp.email, r.existing)
       THEN /\ Move(w, Done(r, 500, "Internal error"))
            /\ UNCHANGED subscribers
       ELSE /\ subscribers' = upsert_subscriber(subscribers, r.inp.email,
                                                create_args(r), r.now, r.existing)
            /\ Move(w, Done([r EXCEPT !.left_status = subscribers'[r.inp.email].status],
                           200, "created"))

\* ---------------------------------------------------------- payment_success
\* Signature check, then upsert_subscriber up to its SELECT.
PaymentSuccess(w) ==
    /\ CanAccept(w)
    /\ nreq' = nreq + 1
    /\ UNCHANGED <<subscribers, payment_log, webhook_log, gateway>>
    /\ \E inp \in PaymentInputs :
        LET r == NewReq("payment", inp) IN
        IF ~verify_razorpay_signature(inp.razorpay_payment_id,
                                      inp.razorpay_subscription_id,
                                      inp.razorpay_signature)
        THEN /\ Move(w, Done(r, 400, "Invalid payment signature"))
             /\ UNCHANGED clock
        ELSE /\ clock' = clock + 2
             /\ Move(w, [r EXCEPT !.pc = "commit", !.sig_ok = TRUE,
                              !.arg_time = clock + 1, !.now = clock + 2,
                              !.existing = inp.email \in DOMAIN subscribers])

\* The upsert, log_payment and the commit, in one transaction.
PaymentCommit(w) ==
    LET r == reqs[w] IN
    /\ r.op = "payment"
    /\ r.pc = "commit"
    /\ UNCHANGED <<webhook_log, gateway, nreq>>
    /\ IF upsert_raises(subscribers, r.inp.email, r.existing)
       THEN /\ Move(w, Done(r, 500, "Internal Server Error"))
            /\ UNCHANGED <<subscribers, payment_log, clock>>
       ELSE /\ subscribers' = upsert_subscriber(subscribers, r.inp.email,
                                                payment_args(r), r.now, r.existing)
            /\ payment_log' = log_payment(payment_log,
                    PaymentRow(r.inp.email, r.inp.phone, r.inp.plan_key,
                               r.inp.razorpay_payment_id,
                               r.inp.razorpay_subscription_id, NoAmount,
                               "manual_success", "captured", clock + 1))
            /\ clock' = clock + 1
            /\ Move(w, Done([r EXCEPT !.left_status = subscribers'[r.inp.email].status],
                           200, "ok"))

\* --------------------------------------------------------- razorpay_webhook
\* Signature check, json.loads, and the webhook_log insert in its own
\* transaction; an invalid signature is answered 200 right after it.
RazorpayWebhook(w) ==
    /\ CanAccept(w)
    /\ nreq' = nreq + 1
    /\ UNCHANGED <<subscribers, payment_log, gateway>>
    /\ \E inp \in WebhookInputs :
        LET sig_ok == verify_webhook_signature(inp.body, inp.signature)
            r == [NewReq("webhook", inp) EXCEPT !.sig_ok = sig_ok]
        IN  IF inp.body.kind = "garbage"
            THEN \* json.loads raises: HTTPException(400)
                 /\ Move(w, Done(r, 400, "Invalid payload"))
                 /\ UNCHANGED <<webhook_log, clock>>
            ELSE IF inp.body.kind = "array"
            THEN \* payload.get on a list: AttributeError, unhandled
                 /\ Move(w, Done(r, 500, "Internal Server Error"))
                 /\ UNCHANGED <<webhook_log, clock>>
            ELSE /\ webhook_log' = Append(webhook_log,
                        [event |-> inp.body.event,
                         entity_id |-> extract_entity_id(inp.body),
                         payload |-> inp.body,
                         signature_ok |-> IF sig_ok THEN 1 ELSE 0,
                         received_at |-> clock + 1])
                 /\ clock' = clock + 1
                 /\ Move(w, IF sig_ok THEN [r EXCEPT !.pc = "dispatch"]
                        ELSE Done(r, 200, "signature_invalid"))

SubscriptionEvents ==
    {"subscription.activated", "subscription.charged", "subscription.cancelled",
     "subscription.completed", "payment.failed"}

\* The handler's guard for the event: "if email" / "if email and payment_id".
webhook_applies(body) ==
    /\ body.event \in SubscriptionEvents
    /\ body.email # ""
    /\ body.event = "subscription.charged" => body.payment_id # ""

\* The subscription.cancelled branch without its cancelled_at=utcnow().
webhook_takes_arg_time_activated_only(body) == body.event = "subscription.activated"

\* activated_at=utcnow() / cancelled_at=utcnow() are evaluated before
\* upsert_subscriber takes its own timestamp.
webhook_takes_arg_time(body) ==
    body.event \in {"subscription.activated", "subscription.cancelled"}

\* The event branch up to upsert_subscriber's SELECT.
WebhookDispatch(w) ==
    LET r == reqs[w]
        body == r.inp.body
    IN
    /\ r.op = "webhook"
    /\ r.pc = "dispatch"
    /\ UNCHANGED <<subscribers, payment_log, webhook_log, gateway, nreq>>
    /\ IF body.kind = "badshape" /\ body.event \in SubscriptionEvents
       THEN \* entity.get on a non-dict: AttributeError, unhandled
            /\ Move(w, Done(r, 500, "Internal Server Error"))
            /\ UNCHANGED clock
       ELSE IF body.kind = "object" /\ webhook_applies(body)
       THEN LET t == IF webhook_takes_arg_time(body) THEN clock + 1 ELSE clock IN
            /\ clock' = t + 1
            /\ Move(w, [r EXCEPT !.pc = "commit",
                              !.arg_time = IF webhook_takes_arg_time(body) THEN t ELSE NoTime,
                              !.now = t + 1,
                              !.existing = body.email \in DOMAIN subscribers])
       ELSE /\ Move(w, Done(r, 200, "processed"))
            /\ UNCHANGED clock

\* notes.get("plan_key", "standard")
notes_plan_key(body) == Supplied(body.plan_key, NULL, "standard")

\* The arguments each event branch passes to upsert_subscriber.
webhook_args(body, arg_time) ==
    CASE body.event = "subscription.activated" ->
            [UpsertDefaults EXCEPT !.plan_key = notes_plan_key(body), !.status = "active",
                                   !.razorpay_sub_id = body.sub_entity_id,
                                   !.activated_at = arg_time]
      [] body.event = "subscription.charged" ->
            [UpsertDefaults EXCEPT !.plan_key = notes_plan_key(body), !.status = "active",
                                   !.razorpay_sub_id = body.sub_entity_id]
      [] body.event = "subscription.cancelled" ->
            [UpsertDefaults EXCEPT !.status = "cancelled",
                                   !.razorpay_sub_id = body.sub_entity_id,
                                   !.cancelled_at = arg_time]
      [] body.event = "subscription.completed" ->
            [UpsertDefaults EXCEPT !.status = "expired",
                                   !.razorpay_sub_id = body.sub_entity_id]
      [] OTHER ->
            [UpsertDefaults EXCEPT !.status = "payment_failed"]

\* log_payment called for subscription.charged only.
webhook_logs_payment_charged_only(body) == body.event = "subscription.charged"

\* Whether the event branch calls log_payment.
webhook_logs_payment(body) ==
    body.event \in {"subscription.charged", "payment.failed"}

\* payment.failed falls back to f"fail_{utcnow()}" when the payload has no id.
webhook_takes_id_time(body) == body.event = "payment.failed" /\ body.payment_id = ""

\* The payment_log row of the event; t is the clock when log_payment is reached.
webhook_payment_row(body, t) ==
    IF body.event = "subscription.charged"
    THEN PaymentRow(body.email, body.contact, notes_plan_key(body), body.payment_id,
                    body.sub_entity_id, body.amount, "subscription.charged",
                    "captured", t + 1)
    ELSE IF body.payment_id # ""
    THEN PaymentRow(body.email, NULL, "unknown", body.payment_id, body.pay_sub_id,
                    NoAmount, "payment.failed", "failed", t + 1)
    ELSE PaymentRow(body.email, NULL, "unknown", "fail_" \o ToString(t + 1),
                    body.pay_sub_id, NoAmount, "payment.failed", "failed", t + 2)

\* The upsert, log_payment where the event has one, and the commit.
WebhookCommit(w) ==
    LET r == reqs[w]
        body == r.inp.body
    IN
    /\ r.op = "webhook"
    /\ r.pc = "commit"
    /\ UNCHANGED <<webhook_log, gateway, nreq>>
    /\ IF upsert_raises(subscribers, body.email, r.existing)
       THEN /\ Move(w, Done(r, 500, "Internal Server Error"))
            /\ UNCHANGED <<subscribers, payment_log, clock>>
       ELSE /\ subscribers' = upsert_subscriber(subscribers, body.email,
                                    webhook_args(body, r.arg_time), r.now, r.existing)
            /\ IF webhook_logs_payment(body)
               THEN /\ payment_log' = log_payment(payment_log,
                                                  webhook_payment_row(body, clock))
                    /\ clock' = IF webhook_takes_id_time(body) THEN clock + 2
                                ELSE clock + 1
               ELSE UNCHANGED <<payment_log, clock>>
            /\ Move(w, Done([r EXCEPT !.left_status = subscribers'[body.email].status],
                           200, "processed"))

\* ------------------------------------------------------ cancel_subscription
\* The first transaction: SELECT razorpay_sub_id, status.
CancelSubscription(w) ==
    /\ CanAccept(w)
    /\ nreq' = nreq + 1
    /\ UNCHANGED <<subscribers, payment_log, webhook_log, clock, gateway>>
    /\ \E inp \in CancelInputs :
        LET r == NewReq("cancel", inp) IN
        IF inp.email \notin DOMAIN subscribers
        THEN Move(w, Done(r, 404, "Subscriber not found"))
        ELSE LET row == subscribers[inp.email]
                 read == [r EXCEPT !.row_sub_id = row.razorpay_sub_id,
                                   !.row_status = row.status]
             IN  IF row.status \in {"cancelled", "expired"}
                 THEN Move(w, Done(read, 200, "already_cancelled"))
                 ELSE Move(w, [read EXCEPT !.pc = "gateway"])

\* The gateway call tried once more after an error before giving up.
CancelGateway_retry(w) ==
    LET r == reqs[w] IN
    /\ r.op = "cancel"
    /\ r.pc = "gateway"
    /\ UNCHANGED <<subscribers, payment_log, webhook_log, nreq>>
    /\ \E gw \in {"ok", "error"} :
        IF Truthy(r.row_sub_id) /\ gw = "error"
        THEN /\ Move(w, Done([r EXCEPT !.gw_calls = 2], 500, "Razorpay error"))
             /\ UNCHANGED <<clock, gateway>>
        ELSE /\ gateway' = IF Truthy(r.row_sub_id)
                           THEN [gateway EXCEPT !.cancels = @ \cup {r.row_sub_id}]
                           ELSE gateway
             /\ clock' = clock + 1
             /\ Move(w, [r EXCEPT !.pc = "commit",
                              !.gw_calls = IF Truthy(r.row_sub_id) THEN 1 ELSE 0,
                              !.now = clock + 1,
                              !.existing = r.inp.email \in DOMAIN subscribers])

\* "if sub_id": the gateway call, then upsert_subscriber up to its SELECT.
CancelGateway(w) ==
    LET r == reqs[w] IN
    /\ r.op = "cancel"
    /\ r.pc = "gateway"
    /\ UNCHANGED <<subscribers, payment_log, webhook_log, nreq>>
    /\ \E gw \in {"ok", "error"} :
        IF Truthy(r.row_sub_id) /\ gw = "error"
        THEN /\ Move(w, Done([r EXCEPT !.gw_calls = 1], 500, "Razorpay error"))
             /\ UNCHANGED <<clock, gateway>>
        ELSE /\ gateway' = IF Truthy(r.row_sub_id)
                           THEN [gateway EXCEPT !.cancels = @ \cup {r.row_sub_id}]
                           ELSE gateway
             /\ clock' = clock + 1
             /\ Move(w, [r EXCEPT !.pc = "commit",
                              !.gw_calls = IF Truthy(r.row_sub_id) THEN 1 ELSE 0,
                              !.now = clock + 1,
                              !.existing = r.inp.email \in DOMAIN subscribers])

\* The cancel endpoint writing the terminal status itself.
cancel_args_immediate ==
    [UpsertDefaults EXCEPT !.cancel_at_period_end = 1, !.status = "cancelled"]

\* The arguments cancel_subscription passes to upsert_subscriber.
cancel_args == [UpsertDefaults EXCEPT !.cancel_at_period_end = 1, !.status = "active"]

\* The second transaction: upsert_subscriber(cancel_at_period_end=1, status="active").
CancelCommit(w) ==
    LET r == reqs[w] IN
    /\ r.op = "cancel"
    /\ r.pc = "commit"
    /\ UNCHANGED <<payment_log, webhook_log, clock, gateway, nreq>>
    /\ IF upsert_raises(subscribers, r.inp.email, r.existing)
       THEN /\ Move(w, Done(r, 500, "Internal Server Error"))
            /\ UNCHANGED subscribers
       ELSE /\ subscribers' = upsert_subscriber(subscribers, r.inp.email,
                                                cancel_args, r.now, r.existing)
            /\ Move(w, Done([r EXCEPT !.left_status = subscribers'[r.inp.email].status],
                           200, "cancel_scheduled"))

\* ------------------------------------------------------------ specification
Next ==
    \E w \in Workers :
        \/ CreateSubscription(w)
        \/ CreateCommit(w)
        \/ PaymentSuccess(w)
        \/ PaymentCommit(w)
        \/ RazorpayWebhook(w)
        \/ WebhookDispatch(w)
        \/ WebhookCommit(w)
        \/ CancelSubscription(w)
        \/ CancelGateway(w)
        \/ CancelCommit(w)

Spec == Init /\ [][Next]_vars

\* ------------------------------------------------------------------- claims
\* The signature header is the HMAC of the body under the webhook secret.
ValidlySigned(inp) == inp.signature = Hmac(RAZORPAY_WEBHOOK_SECRET, inp.body)

\* An answered webhook delivery that was validly signed and carried an email
\* and a payment id for subscription.charged or payment.failed.
PaymentDelivery(e) ==
    /\ e.op = "webhook"
    /\ ValidlySigned(e.inp)
    /\ e.inp.body.kind = "object"
    /\ e.inp.body.event \in {"subscription.charged", "payment.failed"}
    /\ e.inp.body.email # ""
    /\ e.inp.body.payment_id # ""

RowsOf(payment_id) ==
    {i \in 1..Len(payment_log) : payment_log[i].razorpay_payment_id = payment_id}

\* C1: after any number of processed deliveries of one validly signed payload
\* that carries an email and a payment id, payment_log holds exactly one row
\* for that payment id, and every such delivery left the same status.
C1_WebhookIdempotent ==
    \A i \in DOMAIN answered :
        (PaymentDelivery(answered[i]) /\ answered[i].code = 200) =>
            /\ Cardinality(RowsOf(answered[i].inp.body.payment_id)) = 1
            /\ \A j \in DOMAIN answered :
                (/\ answered[j].op = "webhook"
                 /\ answered[j].inp = answered[i].inp
                 /\ answered[j].code = 200)
                    => answered[j].left_status = answered[i].left_status

\* The same payload was delivered and processed twice.
C1_Witness ==
    \E i, j \in DOMAIN answered :
        /\ i < j
        /\ PaymentDelivery(answered[i])
        /\ answered[i].code = 200
        /\ answered[j].op = "webhook"
        /\ answered[j].inp = answered[i].inp
        /\ answered[j].code = 200

C2_OneRowPerPaymentId ==
    \A i, j \in 1..Len(payment_log) :
        payment_log[i].razorpay_payment_id = payment_log[j].razorpay_payment_id => i = j

C2_RowsStay ==
    /\ Len(payment_log') >= Len(payment_log)
    /\ \A i \in 1..Len(payment_log) : payment_log'[i] = payment_log[i]

\* C2: payment_log never holds two rows of one payment id, and no step of any
\* request, however the requests interleave, changes or removes a row.
C2_PaymentLogAppendOnly == []C2_OneRowPerPaymentId /\ [][C2_RowsStay]_vars

\* payment_success and a subscription.charged webhook both logged one payment id.
C2_Witness ==
    \E i, j \in DOMAIN answered :
        /\ answered[i].op = "payment"
        /\ answered[i].code = 200
        /\ PaymentDelivery(answered[j])
        /\ answered[j].code = 200
        /\ answered[j].inp.body.payment_id = answered[i].inp.razorpay_payment_id

\* The request a step accepted (when nreq changes), and the one it answered.
Accepted ==
    IF Len(answered') > Len(answered)
    THEN answered'[Len(answered')]
    ELSE reqs'[CHOOSE w \in Workers : reqs'[w] # reqs[w]]

Answers == Len(answered') > Len(answered)

Answer == answered'[Len(answered')]

C3_NoForgedInFlight ==
    /\ \A w \in Workers : reqs[w].op = "webhook" => ValidlySigned(reqs[w].inp)
    /\ \A i \in DOMAIN answered :
        (answered[i].op = "webhook" /\ ~ValidlySigned(answered[i].inp))
            => answered[i].left_status = NULL

C3_ForgedAnswer ==
    (Answers /\ Answer.op = "webhook" /\ ~ValidlySigned(Answer.inp)) =>
        /\ subscribers' = subscribers
        /\ payment_log' = payment_log
        /\ Answer.inp.body.kind \in {"object", "badshape"} =>
            (Answer.code = 200 /\ Answer.status = "signature_invalid")

C4_Call ==
    IF nreq' = nreq + 1 /\ Accepted.op = "webhook"
    THEN /\ Len(webhook_log') = Len(webhook_log) + 1
         /\ webhook_log'[Len(webhook_log')].signature_ok =
                (IF ValidlySigned(Accepted.inp) THEN 1 ELSE 0)
    ELSE webhook_log' = webhook_log

\* C4: every call of razorpay_webhook, whatever its body and signature, adds
\* exactly one webhook_log row, whose signature_ok is the outcome of the
\* signature verification; no other step touches webhook_log.
C4_EveryCallLogsOneRow == [][C4_Call]_vars

\* The subscriber and payment writes a validly signed payload calls for.
WritesSubscriber(body) ==
    /\ body.kind = "object"
    /\ body.email # ""
    /\ \/ body.event \in {"subscription.activated", "subscription.cancelled",
                          "subscription.completed", "payment.failed"}
       \/ body.event = "subscription.charged" /\ body.payment_id # ""

WritesPayment(body) ==
    WritesSubscriber(body) /\ body.event \in {"subscription.charged", "payment.failed"}

C5_AuditWithUpsert ==
    \A w \in Workers :
        (/\ reqs'[w] # reqs[w]
         /\ Len(webhook_log') > Len(webhook_log)
         /\ ValidlySigned(Accepted.inp)
         /\ WritesSubscriber(Accepted.inp.body))
            => /\ Accepted.inp.body.email \in DOMAIN subscribers'
               /\ subscribers' # subscribers

\* C5 as stated: the webhook_log insert of a processing call is applied
\* together with the call's subscriber upsert, never in a step of its own.
C5_SingleTransaction == [][C5_AuditWithUpsert]_vars

C5_UpsertWithPayment ==
    \A w \in Workers :
        (/\ reqs[w].op = "webhook"
         /\ reqs'[w] # reqs[w])
            => LET body == reqs[w].inp.body IN
               /\ webhook_log' = webhook_log
               /\ \E i \in 1..Len(webhook_log) : webhook_log[i].payload = body
               /\ \/ subscribers' = subscribers /\ payment_log' = payment_log
                  \/ /\ WritesSubscriber(body)
                     /\ body.email \in DOMAIN subscribers'
                     /\ subscribers'[body.email].updated_at = reqs[w].now
                     /\ IF WritesPayment(body)
                        THEN \E i \in 1..Len(payment_log') :
                                payment_log'[i].razorpay_payment_id =
                                    webhook_payment_row(body, clock).razorpay_payment_id
                        ELSE payment_log' = payment_log

\* C5 amended: the webhook_log row of a call is committed first, in a step of
\* its own; after it, each step of the call either changes neither subscribers
\* nor payment_log, or applies the subscriber upsert and, for an event that
\* logs a payment, leaves that payment's row in payment_log, in one step.
C5_UpsertAndPaymentTogether == [][C5_UpsertWithPayment]_vars

\* A payment.failed delivery was processed: its upsert and its payment row.
C5_Witness ==
    \E i \in DOMAIN answered :
        /\ PaymentDelivery(answered[i])
        /\ answered[i].inp.body.event = "payment.failed"
        /\ answered[i].code = 200
        /\ answered[i].left_status = "payment_failed"
        /\ RowsOf(answered[i].inp.body.payment_id) # {}

\* The step in which process w applies its request's database write.
Commits(w) ==
    /\ reqs[w].pc = "commit"
    /\ reqs'[w] # reqs[w]
    /\ subscribers' # subscribers

\* The email the request of process w writes to.
Target(w) ==
    IF reqs[w].op = "webhook" THEN reqs[w].inp.body.email ELSE reqs[w].inp.email

C6_Confirmation ==
    \A w \in Workers :
        (/\ Commits(w)
         /\ \/ reqs[w].op = "payment"
            \/ /\ reqs[w].op = "webhook"
               /\ reqs[w].inp.body.event = "subscription.activated"
         /\ Target(w) \in DOMAIN subscribers
         /\ subscribers[Target(w)].activated_at # NoTime)
            => /\ subscribers'[Target(w)].status = "active"
               /\ subscribers'[Target(w)].activated_at = subscribers[Target(w)].activated_at

\* C6: a payment_success or subscription.activated webhook applied to a
\* subscriber whose activated_at is set leaves status active and activated_at
\* at its earlier value.
C6_ActivatedAtKept == [][C6_Confirmation]_vars

C7_SparseUpdate ==
    \A w \in Workers :
        (Commits(w) /\ Target(w) \in DOMAIN subscribers) =>
            LET old == subscribers[Target(w)]
                new == subscribers'[Target(w)]
            IN  /\ (/\ reqs[w].op = "webhook"
                    /\ reqs[w].inp.body.event \in
                         {"subscription.cancelled", "subscription.completed",
                          "payment.failed"})
                        => /\ new.plan_key = old.plan_key
                           /\ new.name = old.name
                           /\ new.phone = old.phone
                           /\ new.cancel_at_period_end = old.cancel_at_period_end
                /\ reqs[w].op = "cancel" => new.plan_key = old.plan_key

\* C7: on an existing row a subscription.cancelled, subscription.completed or
\* payment.failed webhook leaves plan_key, name, phone and
\* cancel_at_period_end as they were, and cancel_subscription leaves plan_key
\* as it was.
C7_UnsuppliedFieldsKept == [][C7_SparseUpdate]_vars

LifecycleEdges ==
    {<<"trial", "active">>, <<"active", "cancelled">>, <<"active", "expired">>,
     <<"active", "payment_failed">>, <<"payment_failed", "active">>}

C8_Transition ==
    \A e \in DOMAIN subscribers :
        subscribers'[e].status # subscribers[e].status =>
            \/ <<subscribers[e].status, subscribers'[e].status>> \in LifecycleEdges
            \/ /\ subscribers'[e].status = "trial"
               /\ \E w \in Workers : Commits(w) /\ reqs[w].op = "create" /\ Target(w) = e

\* C8: every change of a subscriber's status follows an edge of the lifecycle
\* graph, or is the return to trial made by a new create_subscription.
C8_StatusFollowsLifecycle == [][C8_Transition]_vars

C9_OnlyTheWebhookCancels ==
    /\ \A e \in DOMAIN subscribers' :
        (/\ subscribers'[e].status = "cancelled"
         /\ e \in DOMAIN subscribers => subscribers[e].status # "cancelled")
            => \E w \in Workers :
                /\ Commits(w)
                /\ reqs[w].op = "webhook"
                /\ ValidlySigned(reqs[w].inp)
                /\ reqs[w].inp.body.event = "subscription.cancelled"
                /\ reqs[w].inp.body.email = e
    /\ (Answers /\ Answer.op = "cancel" /\ Answer.status = "cancel_scheduled")
            => subscribers'[Answer.inp.email].status \notin {"cancelled", "expired"}

\* C9: a subscriber's status becomes cancelled only in the commit of a validly
\* signed subscription.cancelled webhook for that email, and the write of a
\* successful cancel_subscription leaves a status that is not terminal.
C9_CancelledOnlyByWebhook == [][C9_OnlyTheWebhookCancels]_vars

\* cancel_subscription answered cancel_scheduled, and the later
\* subscription.cancelled webhook made the subscriber cancelled.
C9_Witness ==
    \E i, j \in DOMAIN answered :
        /\ i < j
        /\ answered[i].op = "cancel"
        /\ answered[i].status = "cancel_scheduled"
        /\ answered[i].left_status = "active"
        /\ answered[j].op = "webhook"
        /\ answered[j].inp.body.event = "subscription.cancelled"
        /\ answered[j].inp.body.email = answered[i].inp.email
        /\ answered[j].left_status = "cancelled"
        /\ subscribers[answered[i].inp.email].status = "cancelled"

C10_CancelRequest ==
    \A w \in Workers :
        (/\ Commits(w)
         /\ reqs[w].op = "cancel"
         /\ Target(w) \in DOMAIN subscribers
         /\ subscribers[Target(w)].status \in {"trial", "active", "payment_failed"})
            => /\ subscribers'[Target(w)].status = subscribers[Target(w)].status
               /\ subscribers'[Target(w)].cancel_at_period_end = 1

\* C10: cancel_subscription applied to a subscriber in trial, active or
\* payment_failed leaves the status as it was and sets cancel_at_period_end.
C10_CancelKeepsStatus == [][C10_CancelRequest]_vars

C11_CancelEcho ==
    /\ \A w \in Workers :
        (/\ Commits(w)
         /\ reqs[w].op = "cancel"
         /\ subscribers'[Target(w)].cancel_at_period_end = 1)
            => reqs[w].gw_calls = 1
    /\ (Answers /\ Answer.op = "cancel" /\ Answer.status = "cancel_scheduled")
            => /\ Answer.gw_calls = 1
               /\ Answer.row_sub_id \in gateway'.cancels

\* C11: cancel_subscription sets cancel_at_period_end and answers
\* cancel_scheduled only in a request that made a gateway cancel call which
\* succeeded, whatever the subscriber's row holds, a missing razorpay_sub_id
\* included.
C11_CancelOnlyAfterGateway == [][C11_CancelEcho]_vars

\* The signature is the HMAC of "payment_id|subscription_id" under the key secret.
PaymentValidlySigned(inp) ==
    inp.razorpay_signature =
        Hmac(RAZORPAY_KEY_SECRET,
             <<inp.razorpay_payment_id, "|", inp.razorpay_subscription_id>>)

C12_NoTamperedInFlight ==
    /\ \A w \in Workers : reqs[w].op = "payment" => PaymentValidlySigned(reqs[w].inp)
    /\ \A i \in DOMAIN answered :
        (answered[i].op = "payment" /\ ~PaymentValidlySigned(answered[i].inp))
            => /\ answered[i].code = 400
               /\ answered[i].status = "Invalid payment signature"
               /\ answered[i].left_status = NULL

C12_TamperedAnswer ==
    (Answers /\ Answer.op = "payment" /\ ~PaymentValidlySigned(Answer.inp)) =>
        /\ nreq' = nreq + 1
        /\ subscribers' = subscribers
        /\ payment_log' = payment_log

\* C12: a payment_success whose signature is not the HMAC of its payment id and
\* subscription id under the key secret is answered 400 "Invalid payment
\* signature" in the step that accepts it, never reaches the write, and leaves
\* subscribers and payment_log as they were.
C12_TamperedPaymentChangesNothing ==
    []C12_NoTamperedInFlight /\ [][C12_TamperedAnswer]_vars

\* Both tampered confirmations (another secret; another payment's signature)
\* were refused, one of them for an existing subscriber.
C12_Witness ==
    \E i, j \in DOMAIN answered :
        /\ answered[i].op = "payment"
        /\ answered[j].op = "payment"
        /\ answered[i].inp.razorpay_signature[1] # RAZORPAY_KEY_SECRET
        /\ answered[i].inp.email \in DOMAIN subscribers
        /\ answered[j].inp.razorpay_signature = PaymentSig("pay_1", "sub_1")
        /\ answered[j].inp.razorpay_payment_id = "pay_2"
        /\ answered[i].code = 400
        /\ answered[j].code = 400

\* The step in which a request is answered because its gateway call failed:
\* create_subscription before any timestamp is taken, cancel_subscription with
\* "Razorpay error".
C13_GatewayFailure ==
    /\ Answers
    /\ \/ /\ Answer.op = "create"
          /\ Answer.status \in {"BadRequestError", "Internal error"}
          /\ Answer.now = NoTime
       \/ /\ Answer.op = "cancel"
          /\ Answer.status = "Razorpay error"

C13_FailedCall ==
    C13_GatewayFailure =>
        /\ Answer.code \in {400, 500}
        /\ Answer.gw_calls = 1
        /\ Answer.left_status = NULL
        /\ gateway' = gateway
        /\ subscribers' = subscribers
        /\ payment_log' = payment_log

C13_BeforeTheWrite ==
    \A w \in Workers :
        (/\ reqs'[w] # reqs[w]
         /\ \/ reqs[w].pc = "gateway"
            \/ nreq' = nreq + 1 /\ Accepted.op \in {"create", "cancel"})
            => /\ subscribers' = subscribers
               /\ payment_log' = payment_log

\* C13: a create_subscription or cancel_subscription whose gateway call fails
\* is answered with an error status after exactly one gateway call, and no
\* step of the request up to that answer changes subscribers or payment_log.
C13_GatewayFailureChangesNothing == [][C13_FailedCall /\ C13_BeforeTheWrite]_vars

\* A gateway failure was reported by create_subscription for an existing
\* subscriber and another by cancel_subscription.
C13_Witness ==
    \E i, j \in DOMAIN answered :
        /\ answered[i].op = "create"
        /\ answered[i].status = "Internal error"
        /\ answered[i].now = NoTime
        /\ answered[i].gw_calls = 1
        /\ answered[i].inp.email \in DOMAIN subscribers
        /\ answered[j].op = "cancel"
        /\ answered[j].status = "Razorpay error"
        /\ answered[j].code = 500

\* The payload has no email, or has no payment id though its event logs a payment.
C14_Lacking(body) ==
    /\ body.kind = "object"
    /\ \/ body.email = ""
       \/ /\ body.event \in {"subscription.charged", "payment.failed"}
          /\ body.payment_id = ""

C14_Skip ==
    \A w \in Workers :
        (/\ reqs[w].op = "webhook"
         /\ reqs'[w] # reqs[w]
         /\ ValidlySigned(reqs[w].inp)
         /\ C14_Lacking(reqs[w].inp.body))
            => /\ subscribers' = subscribers
               /\ payment_log' = payment_log
               /\ Answers => (Answer.code = 200 /\ Answer.status = "processed")

\* C14: a validly signed webhook whose payload lacks the email, or lacks the
\* payment id for subscription.charged or payment.failed, changes no
\* subscribers row, adds no payment_log row, and is answered 200 processed.
C14_IncompleteEventSkipped == [][C14_Skip]_vars

\* The plan keys the service sells.
PlanKeys == {"standard", "pro"}

C15_Refusal(code, status) ==
    /\ Answers
    /\ Answer.code = code
    /\ Answer.status = status
    /\ Answer.gw_calls = 0
    /\ gateway' = gateway
    /\ subscribers' = subscribers
    /\ payment_log' = payment_log

C15_PlanCheck ==
    (nreq' = nreq + 1 /\ Accepted.op = "create") =>
        LET plan_key == Lower(Accepted.inp.plan_key) IN
        /\ plan_key \notin PlanKeys => C15_Refusal(400, "Invalid plan")
        /\ (plan_key \in PlanKeys /\ RAZORPAY_PLAN_IDS[plan_key] = "")
                => C15_Refusal(503, "Plan not configured")

\* C15: a create_subscription whose plan_key is not one of the plan keys, or
\* is one with no upstream plan id configured, is answered 400 "Invalid plan" /
\* 503 "Plan not configured" in the step that accepts it, with no gateway call
\* and no change of subscribers or payment_log, whatever plan_id it carries.
C15_UnknownPlanRejected == [][C15_PlanCheck]_vars

\* Both refusals were given to requests that named the configured upstream
\* plan in plan_id.
C15_Witness ==
    \E i, j \in DOMAIN answered :
        /\ answered[i].op = "create"
        /\ answered[j].op = "create"
        /\ answered[i].inp.plan_id = RAZORPAY_PLAN_IDS["standard"]
        /\ answered[j].inp.plan_id = RAZORPAY_PLAN_IDS["standard"]
        /\ answered[i].status = "Invalid plan"
        /\ answered[j].status = "Plan not configured"
        /\ answered[i].gw_calls = 0
        /\ answered[j].gw_calls = 0

\* C16: every subscribers row has a plan_key among the plan keys and a status
\* among the five lifecycle states, whatever plan_key payment_success and the
\* webhook payloads' notes carry.
C16_PlanAndStatusInEnum ==
    \A e \in DOMAIN subscribers :
        /\ subscribers[e].plan_key \in PlanKeys
        /\ subscribers[e].status \in
              {"trial", "active", "cancelled", "expired", "payment_failed"}

C17_Created ==
    (Answers /\ Answer.op = "create" /\ Answer.code = 200) =>
        /\ Answer.inp.email \in DOMAIN subscribers'
        /\ subscribers'[Answer.inp.email].status = "trial"
        /\ subscribers'[Answer.inp.email].trial_start_at # NoTime
        /\ subscribers'[Answer.inp.email].razorpay_sub_id = Answer.sub_id
        /\ Truthy(Answer.sub_id)

\* C17: when create_subscription answers 200, the subscriber's row, new or
\* already there, has status trial, trial_start_at set, and razorpay_sub_id
\* equal to the subscription id returned to the caller.
C17_CreateLeavesTrial == [][C17_Created]_vars

\* create_subscription succeeded for a new subscriber and for one that had
\* been active under an earlier subscription id.
C17_Witness ==
    \E i, j \in DOMAIN answered :
        /\ answered[i].op = "create"
        /\ answered[i].code = 200
        /\ ~answered[i].existing
        /\ answered[j].op = "create"
        /\ answered[j].code = 200
        /\ answered[j].existing
        /\ answered[j].sub_id # "sub_1"
        /\ subscribers[answered[j].inp.email].activated_at # NoTime
        /\ subscribers[answered[j].inp.email].status = "trial"

C18_Refreshed ==
    \A e \in DOMAIN subscribers :
        subscribers'[e] # subscribers[e] =>
            subscribers'[e].updated_at > subscribers[e].updated_at

\* C18: every write to an existing subscribers row stores an updated_at
\* strictly greater than the one it replaces, also when the writing requests
\* run concurrently.
C18_UpdatedAtIncreases == [][C18_Refreshed]_vars

\* A validly signed subscription.cancelled / subscription.completed webhook
\* for the email was answered after it made the subscriber cancelled / expired.
C19_Terminated(e, email) ==
    /\ e.op = "webhook"
    /\ ValidlySigned(e.inp)
    /\ e.inp.body.event \in {"subscription.cancelled", "subscription.completed"}
    /\ e.inp.body.email = email
    /\ e.left_status \in {"cancelled", "expired"}

C19_CancelAfterWebhook ==
    (/\ Answers
     /\ Answer.op = "cancel"
     /\ Answer.row_status \notin {NULL, "cancelled", "expired"}
     /\ \E i \in DOMAIN answered : C19_Terminated(answered[i], Answer.inp.email)
     /\ subscribers[Answer.inp.email].status \in {"cancelled", "expired"})
        => subscribers'[Answer.inp.email].status = subscribers[Answer.inp.email].status

\* C19: when a validly signed subscription.cancelled or subscription.completed
\* webhook is processed between cancel_subscription's read of the subscriber
\* and its write, the subscriber is still cancelled / expired after
\* cancel_subscription's write.
C19_TerminalStatusSurvivesCancel == [][C19_CancelAfterWebhook]_vars

\* C20: once a validly signed subscription.charged webhook carrying an email,
\* a payment id and an amount has been processed, the payment_log row of that
\* payment id has that amount and event_type subscription.charged, whether
\* payment_success logged the payment id before or after the webhook.
C20_WebhookRowAuthoritative ==
    \A i \in DOMAIN answered :
        (/\ PaymentDelivery(answered[i])
         /\ answered[i].inp.body.event = "subscription.charged"
         /\ answered[i].code = 200)
            => \E k \in RowsOf(answered[i].inp.body.payment_id) :
                /\ payment_log[k].amount_paise = answered[i].inp.body.amount
                /\ payment_log[k].event_type = "subscription.charged"

\* Another subscriber's row holds the subscription id the request was signed for.
C21_RegisteredToAnother(w) ==
    \E o \in DOMAIN subscribers :
        /\ o # Target(w)
        /\ subscribers[o].razorpay_sub_id = reqs[w].inp.razorpay_subscription_id

C21_Confirms ==
    \A w \in Workers :
        (/\ reqs[w].op = "payment"
         /\ reqs[w].pc = "commit"
         /\ reqs'[w] # reqs[w]
         /\ PaymentValidlySigned(reqs[w].inp)
         /\ C21_RegisteredToAnother(w))
            => /\ Target(w) \in DOMAIN subscribers' => Target(w) \in DOMAIN subscribers
               /\ Target(w) \in DOMAIN subscribers =>
                    /\ subscribers'[Target(w)].status = subscribers[Target(w)].status
                    /\ subscribers'[Target(w)].razorpay_sub_id =
                            subscribers[Target(w)].razorpay_sub_id

\* C21: a validly signed payment_success whose subscription id is registered
\* to another email than the one the request names does not create a row for
\* the named email, and leaves the status and razorpay_sub_id of an existing
\* row of the named email as they were.
C21_PaymentBoundToSubscriber == [][C21_Confirms]_vars

\* C22: every subscribers row whose status is cancelled has cancelled_at set,
\* in every state the four endpoints can reach.
C22_CancelledHasCancelledAt ==
    \A e \in DOMAIN subscribers :
        subscribers[e].status = "cancelled" => subscribers[e].cancelled_at # NoTime

\* A subscription.cancelled webhook created a cancelled row, and another
\* updated an existing row to cancelled.
C22_Witness ==
    \E i, j \in DOMAIN answered :
        /\ answered[i].op = "webhook"
        /\ answered[i].inp.body.event = "subscription.cancelled"
        /\ answered[i].left_status = "cancelled"
        /\ ~answered[i].existing
        /\ answered[j].op = "webhook"
        /\ answered[j].inp.body.event = "subscription.cancelled"
        /\ answered[j].left_status = "cancelled"
        /\ answered[j].existing
        /\ subscribers[answered[j].inp.body.email].status = "cancelled"
        /\ subscribers[answered[j].inp.body.email].cancelled_at # NoTime

====
